---- MODULE Spec2Model ----
(***************************************************************************)
(* django-picklefield: PickledObjectField and its codec                    *)
(* (src/picklefield/fields.py).                                            *)
(*                                                                         *)
(* Python objects are records with an identity (id), so that two equal     *)
(* values can differ in how their parts are shared.  The codec is modelled *)
(* stage by stage on bytes (0..255) and characters (code points):          *)
(* deepcopy, pickle dumps/loads on pickle's own opcodes, zlib framing with *)
(* an Adler-32 trailer, RFC 4648 base64 with CPython's lenient decoder.    *)
(***************************************************************************)
EXTENDS Integers, Sequences, FiniteSets, TLC

VARIABLES cfg, column, edited, saved, today, last

vars == <<cfg, column, edited, saved, today, last>>

(***************************************************************************)
(* Python values                                                           *)
(***************************************************************************)
Obj(k, cls, id, n, s, items) == [k |-> k, cls |-> cls, id |-> id, n |-> n, s |-> s, items |-> items]

None == Obj("none", "", 0, 0, <<>>, <<>>)

PyInt(n) == Obj("int", "", 0, n, <<>>, <<>>)

Str(id, chars) == Obj("str", "str", id, 0, chars, <<>>)

\* class PickledObject(str): the tag "this text is codec output"
PickledObject(id, chars) == Obj("str", "PickledObject", id, 0, chars, <<>>)

\* tests/models.py: class TestCustomDataType(str)
TestCustomDataType(id, chars) == Obj("str", "TestCustomDataType", id, 0, chars, <<>>)

\* tests/models.py: class TestCopyDataType(str), whose __deepcopy__ raises
TestCopyDataType(id, chars) == Obj("str", "TestCopyDataType", id, 0, chars, <<>>)

List(id, items) == Obj("list", "list", id, 0, <<>>, items)

Tuple(id, items) == Obj("tuple", "tuple", id, 0, <<>>, items)

\* class _ObjectWrapper(object): __slots__ = ('_obj',)
_ObjectWrapper(id, obj) == Obj("inst", "_ObjectWrapper", id, 0, <<>>, <<obj>>)

\* an instance of a user class that defines prepare_database_save
HookObject(id) == Obj("inst", "HookObject", id, 0, <<>>, <<>>)

\* Importable module-level names (functions and classes): the two bytes are
\* the module and the attribute name as the pickle stream spells them.
GlobalTable == [len |-> <<98, 108>>, today |-> <<100, 116>>, list |-> <<98, 105>>, MinimalTestingModel |-> <<116, 77>>, _ObjectWrapper |-> <<112, 87>>, PickledObject |-> <<112, 80>>, TestCustomDataType |-> <<116, 67>>, TestCopyDataType |-> <<116, 89>>, HookObject |-> <<116, 72>>, _reconstructor |-> <<99, 114>>, object |-> <<98, 111>>, str |-> <<98, 115>>]

GlobalNames == DOMAIN GlobalTable

\* the identity of a module-level object is fixed by its name
GlobalId(name) == 10000 + (256 * GlobalTable[name][1]) + GlobalTable[name][2]

Global(name) == Obj("global", name, GlobalId(name), 0, <<>>, <<>>)

isinstance(v, cls) == v.cls = cls

\* callable(obj): functions and classes
callable(v) == v.k = "global"

\* hasattr(obj, 'prepare_database_save'): instances of a class defining it,
\* and such a class itself (django.db.models.Model subclasses)
has_prepare_database_save(v) == \/ v.k = "inst" /\ v.cls = "HookObject"
                                \/ v.k = "global" /\ v.cls \in {"HookObject", "MinimalTestingModel"}

\* Python's ==: by value for the built-in types (a str subclass compares as
\* its text), by name for module-level objects, field-wise for instances.
RECURSIVE PyEq(_, _)
PyEq(a, b) == /\ a.k = b.k
              /\ a.n = b.n
              /\ a.s = b.s
              /\ (a.k \in {"global", "inst"} => a.cls = b.cls)
              /\ Len(a.items) = Len(b.items)
              /\ \A i \in 1..Len(a.items) : PyEq(a.items[i], b.items[i])

(***************************************************************************)
(* copy.deepcopy: atoms (None, int, str and its subclasses, functions,     *)
(* classes) are returned as they are; a list or an instance is rebuilt as  *)
(* a new object, the memo mapping one source object to one copy, so the    *)
(* sharing inside the value is kept; a tuple is rebuilt only when one of   *)
(* its items was.  CopyOffset separates the new identities from the old.   *)
(***************************************************************************)
CopyOffset == 500

RECURSIVE deepcopy_raises(_)
\* deepcopy(v) raises when it reaches an object whose __deepcopy__ raises
deepcopy_raises(v) == v.cls = "TestCopyDataType" \/ \E i \in 1..Len(v.items) : deepcopy_raises(v.items[i])

RECURSIVE deepcopy(_)
\* the copy that deepcopy(v) returns when it does not raise
deepcopy(v) == LET items == [i \in 1..Len(v.items) |-> deepcopy(v.items[i])]
               IN  CASE v.k \in {"list", "inst"} -> [v EXCEPT !.id = v.id + CopyOffset, !.items = items]
                     [] v.k = "tuple" -> IF items = v.items THEN v ELSE [v EXCEPT !.id = v.id + CopyOffset, !.items = items]
                     [] OTHER -> v

(***************************************************************************)
(* pickle.dumps(value, protocol) for protocols 1 and 2.  The result is     *)
(* [ok, out, memo, err]: the bytes written and the pickler's memo (the     *)
(* identities already written, in memo-index order).                       *)
(***************************************************************************)
OP == [PROTO |-> 128, STOP |-> 46, NONE |-> 78, BININT1 |-> 75, BINUNICODE |-> 88, BINPUT |-> 113, BINGET |-> 104, EMPTY_LIST |-> 93, APPEND |-> 97, APPENDS |-> 101, MARK |-> 40, EMPTY_TUPLE |-> 41, TUPLE |-> 116, TUPLE1 |-> 133, TUPLE2 |-> 134, TUPLE3 |-> 135, GLOBAL |-> 99, NEWOBJ |-> 129, REDUCE |-> 82, BUILD |-> 98, NL |-> 10]

Protocols == {1, 2}

Saved(out, memo) == [ok |-> TRUE, out |-> out, memo |-> memo, err |-> ""]

PickleError(err) == [ok |-> FALSE, out |-> <<>>, memo |-> <<>>, err |-> err]

InMemo(memo, id) == \E i \in 1..Len(memo) : memo[i] = id

MemoIndex(memo, id) == (CHOOSE i \in 1..Len(memo) : memo[i] = id) - 1

\* Pickler.memoize: BINPUT with the next free index
put(r, id) == IF r.ok THEN Saved(r.out \o <<OP.BINPUT, Len(r.memo)>>, Append(r.memo, id)) ELSE r

write(r, bytes) == IF r.ok THEN Saved(r.out \o bytes, r.memo) ELSE r

\* identities of the temporaries __reduce_ex__ builds for the object id
TmpId(id, j) == 1000 + (2 * id) + j

\* copyreg: the non-heap base class of an instance and its state as that base
ReduceBase(v) == IF v.k = "str" THEN Global("str") ELSE Global("object")

ReduceState(v) == IF v.k = "str" THEN Str(TmpId(v.id, 1), v.s) ELSE None

RECURSIVE save(_, _, _)
RECURSIVE saveAll(_, _, _)
\* Pickler.save(obj) continuing the stream r
save(v, r, proto) ==
    IF ~r.ok THEN r
    ELSE CASE v.k = "none" -> write(r, <<OP.NONE>>)
           [] v.k = "int" -> write(r, <<OP.BININT1, v.n>>)
           [] v.k = "tuple" /\ v.items = <<>> -> write(r, <<OP.EMPTY_TUPLE>>)
           [] OTHER ->
              IF InMemo(r.memo, v.id) THEN write(r, <<OP.BINGET, MemoIndex(r.memo, v.id)>>)
              ELSE CASE v.k = "str" /\ v.cls = "str" ->
                          put(write(r, <<OP.BINUNICODE, Len(v.s), 0, 0, 0>> \o v.s), v.id)
                     [] v.k = "list" ->
                          LET head == put(write(r, <<OP.EMPTY_LIST>>), v.id)
                          IN  CASE Len(v.items) = 0 -> head
                                [] Len(v.items) = 1 -> write(save(v.items[1], head, proto), <<OP.APPEND>>)
                                [] OTHER -> write(saveAll(v.items, write(head, <<OP.MARK>>), proto), <<OP.APPENDS>>)
                     [] v.k = "tuple" ->
                          IF proto >= 2 /\ Len(v.items) <= 3
                          THEN put(write(saveAll(v.items, r, proto), <<OP.TUPLE1 + Len(v.items) - 1>>), v.id)
                          ELSE put(write(saveAll(v.items, write(r, <<OP.MARK>>), proto), <<OP.TUPLE>>), v.id)
                     [] v.k = "global" ->
                          put(write(r, <<OP.GLOBAL, GlobalTable[v.cls][1], OP.NL, GlobalTable[v.cls][2], OP.NL>>), v.id)
                     [] OTHER ->
                          \* object.__reduce_ex__(protocol)
                          IF proto >= 2
                          THEN LET args == IF v.k = "str" THEN Tuple(TmpId(v.id, 0), <<ReduceState(v)>>) ELSE Tuple(0, <<>>)
                                   made == put(write(save(args, save(Global(v.cls), r, proto), proto), <<OP.NEWOBJ>>), v.id)
                               IN  IF v.k = "inst" /\ Len(v.items) > 0
                                   THEN write(save(v.items[1], made, proto), <<OP.BUILD>>)
                                   ELSE made
                          ELSE IF v.cls = "_ObjectWrapper"
                               THEN PickleError("TypeError: a class that defines __slots__ without defining __getstate__ cannot be pickled")
                               ELSE LET args == Tuple(TmpId(v.id, 0), <<Global(v.cls), ReduceBase(v), ReduceState(v)>>)
                                    IN  put(write(save(args, save(Global("_reconstructor"), r, proto), proto), <<OP.REDUCE>>), v.id)

saveAll(items, r, proto) == IF items = <<>> THEN r ELSE saveAll(Tail(items), save(Head(items), r, proto), proto)

dumps(value, protocol) ==
    LET start == IF protocol >= 2 THEN Saved(<<OP.PROTO, protocol>>, <<>>) ELSE Saved(<<>>, <<>>)
    IN  write(save(value, start, protocol), <<OP.STOP>>)


(***************************************************************************)
(* pickle.loads(bytes): the unpickling machine over the same opcodes.  A   *)
(* list or an instance lives in the heap and is held by reference, since   *)
(* APPEND and BUILD change it after the memo and the stack took it.  The   *)
(* result is [ok, val, err]; every opcode outside the table, a missing     *)
(* operand, an empty stack or an unknown name is an error.                 *)
(***************************************************************************)
Loaded(v) == [ok |-> TRUE, val |-> v, err |-> ""]

UnpicklingError(err) == [ok |-> FALSE, val |-> None, err |-> err]

Ref(id) == Obj("ref", "", id, 0, <<>>, <<>>)

Mark == Obj("mark", "", 0, 0, <<>>, <<>>)

StrClasses == {"str", "PickledObject", "TestCustomDataType", "TestCopyDataType"}

InstClasses == {"_ObjectWrapper", "HookObject", "MinimalTestingModel", "object"}

Top(stack) == stack[Len(stack)]

Pop(stack, n) == SubSeq(stack, 1, Len(stack) - n)

\* position of the topmost MARK, 0 when there is none
MarkPos(stack) == IF \E i \in 1..Len(stack) : stack[i] = Mark
                  THEN CHOOSE i \in 1..Len(stack) : stack[i] = Mark /\ \A j \in (i+1)..Len(stack) : stack[j] # Mark
                  ELSE 0

GlobalNamed(mod, name) == IF \E g \in GlobalNames : GlobalTable[g] = <<mod, name>>
                          THEN CHOOSE g \in GlobalNames : GlobalTable[g] = <<mod, name>>
                          ELSE ""

\* the depth to which a loaded object graph is unfolded into a value
ResolveDepth == 6

RECURSIVE Resolve(_, _, _)
Resolve(item, heap, fuel) ==
    IF fuel = 0 THEN Obj("recursive", "", item.id, 0, <<>>, <<>>)
    ELSE LET node == IF item.k = "ref" THEN heap[item.id] ELSE item
         IN  [node EXCEPT !.items = [i \in 1..Len(node.items) |-> Resolve(node.items[i], heap, fuel - 1)]]

\* cls.__new__(cls, *args) and cls(*args), func(*args): [ok, item, heap]
Made(item, heap) == [ok |-> TRUE, item |-> item, heap |-> heap]

NotMade == [ok |-> FALSE, item |-> None, heap |-> <<>>]

Alloc(node, heap) == Made(Ref(node.id), (node.id :> node) @@ heap)

New(cls, args, heap, nid) ==
    CASE cls.k # "global" \/ args.k # "tuple" -> NotMade
      [] cls.cls \in StrClasses /\ Len(args.items) = 0 -> Made(Obj("str", cls.cls, nid, 0, <<>>, <<>>), heap)
      [] cls.cls \in StrClasses /\ Len(args.items) = 1 /\ args.items[1].k = "str" -> Made(Obj("str", cls.cls, nid, 0, args.items[1].s, <<>>), heap)
      [] cls.cls \in InstClasses /\ Len(args.items) = 0 -> Alloc(Obj("inst", cls.cls, nid, 0, <<>>, <<>>), heap)
      [] OTHER -> NotMade

Call(func, args, heap, nid) ==
    CASE func.k # "global" \/ args.k # "tuple" -> NotMade
      [] func.cls = "_reconstructor" /\ Len(args.items) = 3 ->
           LET cls == args.items[1]
               base == args.items[2]
               state == args.items[3]
           IN  CASE base = Global("object") /\ cls.k = "global" /\ cls.cls \in InstClasses \ {"_ObjectWrapper"} -> New(cls, Tuple(0, <<>>), heap, nid)
                 [] base = Global("str") /\ cls.k = "global" /\ cls.cls \in StrClasses /\ state.k = "str" -> New(cls, Tuple(0, <<state>>), heap, nid)
                 [] OTHER -> NotMade
      [] func.cls = "_ObjectWrapper" /\ Len(args.items) = 1 -> Alloc(Obj("inst", "_ObjectWrapper", nid, 0, <<>>, <<args.items[1]>>), heap)
      [] func.cls = "len" /\ Len(args.items) = 1 /\ args.items[1].k \in {"str", "tuple"} ->
           Made(PyInt(IF args.items[1].k = "str" THEN Len(args.items[1].s) ELSE Len(args.items[1].items)), heap)
      [] func.cls = "len" /\ Len(args.items) = 1 /\ args.items[1].k = "ref" /\ heap[args.items[1].id].k = "list" ->
           Made(PyInt(Len(heap[args.items[1].id].items)), heap)
      [] func.cls \in (StrClasses \cup InstClasses) \ {"_ObjectWrapper"} -> New(func, args, heap, nid)
      [] OTHER -> NotMade

IsListRef(item, heap) == item.k = "ref" /\ heap[item.id].k = "list"

Extend(heap, id, more) == [heap EXCEPT ![id].items = @ \o more]

RECURSIVE run(_, _, _, _, _, _)
run(bs, pos, stack, memo, heap, nid) ==
    LET op == bs[pos]
        has(n) == pos + n <= Len(bs)
        depth == Len(stack)
        mark == MarkPos(stack)
        sincemark == SubSeq(stack, mark + 1, depth)
        next(n, stk) == run(bs, pos + n, stk, memo, heap, nid)
        fresh(n, stk, hp) == run(bs, pos + n, stk, memo, hp, nid + 1)
        fail == UnpicklingError("UnpicklingError")
    IN  IF pos > Len(bs) THEN UnpicklingError("EOFError")
        ELSE CASE op = OP.PROTO -> IF has(1) /\ bs[pos + 1] <= 5 THEN next(2, stack) ELSE fail
               [] op = OP.STOP -> IF depth > 0 /\ Top(stack) # Mark THEN Loaded(Resolve(Top(stack), heap, ResolveDepth)) ELSE fail
               [] op = OP.NONE -> next(1, Append(stack, None))
               [] op = OP.BININT1 -> IF has(1) THEN next(2, Append(stack, PyInt(bs[pos + 1]))) ELSE fail
               [] op = OP.BINUNICODE ->
                    IF has(4) /\ bs[pos + 2] = 0 /\ bs[pos + 3] = 0 /\ bs[pos + 4] = 0 /\ has(4 + bs[pos + 1])
                    THEN LET text == SubSeq(bs, pos + 5, pos + 4 + bs[pos + 1])
                         IN  IF \A i \in 1..Len(text) : text[i] < 128
                             THEN fresh(5 + Len(text), Append(stack, Str(nid, text)), heap)
                             ELSE UnpicklingError("UnicodeDecodeError")
                    ELSE fail
               [] op = OP.BINPUT ->
                    IF has(1) /\ depth > 0 /\ Top(stack) # Mark
                    THEN run(bs, pos + 2, stack, (bs[pos + 1] :> Top(stack)) @@ memo, heap, nid)
                    ELSE fail
               [] op = OP.BINGET ->
                    IF has(1) /\ bs[pos + 1] \in DOMAIN memo THEN next(2, Append(stack, memo[bs[pos + 1]])) ELSE UnpicklingError("KeyError")
               [] op = OP.EMPTY_LIST -> fresh(1, Append(stack, Ref(nid)), (nid :> List(nid, <<>>)) @@ heap)
               [] op = OP.APPEND ->
                    IF depth >= 2 /\ Top(stack) # Mark /\ IsListRef(stack[depth - 1], heap)
                    THEN run(bs, pos + 1, Pop(stack, 1), memo, Extend(heap, stack[depth - 1].id, <<Top(stack)>>), nid)
                    ELSE fail
               [] op = OP.APPENDS ->
                    IF mark >= 2 /\ IsListRef(stack[mark - 1], heap)
                    THEN run(bs, pos + 1, SubSeq(stack, 1, mark - 1), memo, Extend(heap, stack[mark - 1].id, sincemark), nid)
                    ELSE fail
               [] op = OP.MARK -> next(1, Append(stack, Mark))
               [] op = OP.EMPTY_TUPLE -> next(1, Append(stack, Tuple(0, <<>>)))
               [] op = OP.TUPLE ->
                    IF mark >= 1 THEN fresh(1, Append(SubSeq(stack, 1, mark - 1), Tuple(nid, sincemark)), heap) ELSE fail
               [] op \in {OP.TUPLE1, OP.TUPLE2, OP.TUPLE3} ->
                    LET n == op - OP.TUPLE1 + 1
                    IN  IF depth - mark >= n
                        THEN fresh(1, Append(Pop(stack, n), Tuple(nid, SubSeq(stack, depth - n + 1, depth))), heap)
                        ELSE fail
               [] op = OP.GLOBAL ->
                    IF has(4) /\ bs[pos + 2] = OP.NL /\ bs[pos + 4] = OP.NL /\ GlobalNamed(bs[pos + 1], bs[pos + 3]) # ""
                    THEN next(5, Append(stack, Global(GlobalNamed(bs[pos + 1], bs[pos + 3]))))
                    ELSE UnpicklingError("ImportError")
               [] op \in {OP.NEWOBJ, OP.REDUCE} ->
                    IF depth - mark >= 2
                    THEN LET made == IF op = OP.NEWOBJ THEN New(stack[depth - 1], Top(stack), heap, nid) ELSE Call(stack[depth - 1], Top(stack), heap, nid)
                         IN  IF made.ok THEN fresh(1, Append(Pop(stack, 2), made.item), made.heap) ELSE UnpicklingError("TypeError")
                    ELSE fail
               [] op = OP.BUILD ->
                    IF depth - mark >= 2
                    THEN LET inst == stack[depth - 1]
                             state == Top(stack)
                         IN  CASE state = None -> next(1, Pop(stack, 1))
                               [] inst.k = "ref" /\ heap[inst.id].cls = "_ObjectWrapper" ->
                                    run(bs, pos + 1, Pop(stack, 1), memo, [heap EXCEPT ![inst.id].items = <<state>>], nid)
                               [] OTHER -> UnpicklingError("AttributeError")
                    ELSE fail
               [] OTHER -> fail

loads(bytes) == run(bytes, 1, <<>>, <<>>, <<>>, 1)

(***************************************************************************)
(* zlib.compress / zlib.decompress.  A zlib stream is a two-byte header, a *)
(* deflate body and the Adler-32 of the plain bytes.  The body is written  *)
(* as one stored block (the deflate form that needs no Huffman tables);    *)
(* decompress accepts stored blocks, checks the header, the block lengths  *)
(* and the checksum, and ignores what follows the stream.                  *)
(***************************************************************************)
RECURSIVE AdlerSums(_)
\* <<sum of the bytes, sum of the running sums of the bytes>> of data, the two
\* halves of data combined: the running sums of the right half start from
\* the sum of the left half
AdlerSums(data) ==
    CASE data = <<>> -> <<0, 0>>
      [] Len(data) = 1 -> <<data[1], data[1]>>
      [] OTHER -> LET m == Len(data) \div 2
                      l == AdlerSums(SubSeq(data, 1, m))
                      r == AdlerSums(SubSeq(data, m + 1, Len(data)))
                  IN  <<l[1] + r[1], l[2] + ((Len(data) - m) * l[1]) + r[2]>>

\* a starts from 1 and b from 0, both modulo 65521; big-endian b then a
adler32(data) == LET sums == AdlerSums(data)
                     a == (1 + sums[1]) % 65521
                     b == (Len(data) + sums[2]) % 65521
                 IN  <<b \div 256, b % 256, a \div 256, a % 256>>

compress(data) == LET n == Len(data)
                  IN  <<120, 156, 1, n % 256, n \div 256, 255 - (n % 256), 255 - (n \div 256)>> \o data \o adler32(data)

Inflated(data) == [ok |-> TRUE, val |-> data, err |-> ""]

ZlibError(err) == [ok |-> FALSE, val |-> <<>>, err |-> err]

RECURSIVE inflate(_, _, _)
\* the blocks from pos on, out being the bytes of the blocks before
inflate(bs, pos, out) ==
    IF pos + 4 > Len(bs) THEN ZlibError("incomplete or truncated stream")
    ELSE LET final == bs[pos] % 2
             type == (bs[pos] \div 2) % 4
             n == bs[pos + 1] + (256 * bs[pos + 2])
             data == SubSeq(bs, pos + 5, pos + 4 + n)
         IN  CASE type # 0 -> ZlibError("invalid or unsupported block type")
               [] bs[pos + 3] # 255 - bs[pos + 1] \/ bs[pos + 4] # 255 - bs[pos + 2] -> ZlibError("invalid stored block lengths")
               [] pos + 4 + n > Len(bs) -> ZlibError("incomplete or truncated stream")
               [] final = 0 -> inflate(bs, pos + 5 + n, out \o data)
               [] pos + 8 + n > Len(bs) -> ZlibError("incomplete or truncated stream")
               [] SubSeq(bs, pos + 5 + n, pos + 8 + n) # adler32(out \o data) -> ZlibError("incorrect data check")
               [] OTHER -> Inflated(out \o data)

decompress(bs) ==
    CASE Len(bs) < 2 -> ZlibError("incomplete or truncated stream")
      [] bs[1] % 16 # 8 \/ bs[1] \div 16 > 7 \/ ((256 * bs[1]) + bs[2]) % 31 # 0 -> ZlibError("incorrect header check")
      [] (bs[2] \div 32) % 2 = 1 -> ZlibError("need dictionary")
      [] OTHER -> inflate(bs, 3, <<>>)

(***************************************************************************)
(* base64.b64encode / base64.b64decode (binascii, not strict): characters  *)
(* outside the alphabet are skipped, a complete pad ends the input, and a  *)
(* group left incomplete at the end is an error.                           *)
(***************************************************************************)
B64Char(i) == CASE i < 26 -> 65 + i
                [] i < 52 -> 97 + (i - 26)
                [] i < 62 -> 48 + (i - 52)
                [] i = 62 -> 43
                [] OTHER -> 47

\* table_a2b_base64: 64 for a character outside the alphabet
B64Index(c) == CASE c >= 65 /\ c <= 90 -> c - 65
                 [] c >= 97 /\ c <= 122 -> c - 97 + 26
                 [] c >= 48 /\ c <= 57 -> c - 48 + 52
                 [] c = 43 -> 62
                 [] c = 47 -> 63
                 [] OTHER -> 64

B64Pad == 61

RECURSIVE b64encode(_)
\* groups of three bytes give four characters; the input is taken half by half
b64encode(bs) ==
    LET n == Len(bs)
    IN  CASE n = 0 -> <<>>
          [] n <= 3 -> LET b1 == bs[1]
                           b2 == IF n >= 2 THEN bs[2] ELSE 0
                           b3 == IF n >= 3 THEN bs[3] ELSE 0
                       IN  << B64Char(b1 \div 4),
                              B64Char(((b1 % 4) * 16) + (b2 \div 16)),
                              IF n >= 2 THEN B64Char(((b2 % 16) * 4) + (b3 \div 64)) ELSE B64Pad,
                              IF n >= 3 THEN B64Char(b3 % 64) ELSE B64Pad >>
          [] OTHER -> LET m == 3 * (((n + 2) \div 3) \div 2)
                      IN  b64encode(SubSeq(bs, 1, m)) \o b64encode(SubSeq(bs, m + 1, n))

Decoded(bytes) == [ok |-> TRUE, val |-> bytes, err |-> ""]

BinasciiError(err) == [ok |-> FALSE, val |-> <<>>, err |-> err]

\* the decoder's state: done is set once a complete pad has ended the input
A2bState(quad_pos, leftchar, pads, out, done) ==
    [quad_pos |-> quad_pos, leftchar |-> leftchar, pads |-> pads, out |-> out, done |-> done]

\* one character of the input
a2b_char(st, c) ==
    LET v == B64Index(c)
    IN  CASE st.done -> st
          [] c = B64Pad ->
               IF st.quad_pos >= 2 /\ st.quad_pos + st.pads + 1 >= 4 THEN [st EXCEPT !.done = TRUE]
               ELSE [st EXCEPT !.pads = IF st.quad_pos >= 2 THEN st.pads + 1 ELSE st.pads]
          [] v >= 64 -> st
          [] st.quad_pos = 0 -> A2bState(1, v, 0, st.out, FALSE)
          [] st.quad_pos = 1 -> A2bState(2, v % 16, 0, Append(st.out, (st.leftchar * 4) + (v \div 16)), FALSE)
          [] st.quad_pos = 2 -> A2bState(3, v % 4, 0, Append(st.out, (st.leftchar * 16) + (v \div 4)), FALSE)
          [] OTHER -> A2bState(0, 0, 0, Append(st.out, (st.leftchar * 64) + v), FALSE)

RECURSIVE a2b_chars(_, _)
\* the characters of cs in order, taken half by half
a2b_chars(cs, st) ==
    CASE cs = <<>> -> st
      [] Len(cs) = 1 -> a2b_char(st, cs[1])
      [] OTHER -> LET m == Len(cs) \div 2
                      left == a2b_chars(SubSeq(cs, 1, m), st)
                  IN  IF left.done THEN left ELSE a2b_chars(SubSeq(cs, m + 1, Len(cs)), left)

a2b_base64(cs) ==
    LET st == a2b_chars(cs, A2bState(0, 0, 0, <<>>, FALSE))
    IN  CASE st.done \/ st.quad_pos = 0 -> Decoded(st.out)
          [] st.quad_pos = 1 -> BinasciiError("Invalid base64-encoded string")
          [] OTHER -> BinasciiError("Incorrect padding")

b64decode(bytes) == a2b_base64(bytes)

\* str.encode(): UTF-8 of code points below 2048
RECURSIVE str_encode(_)
str_encode(chars) ==
    CASE chars = <<>> -> <<>>
      [] Len(chars) = 1 -> IF chars[1] < 128 THEN <<chars[1]>> ELSE <<192 + (chars[1] \div 64), 128 + (chars[1] % 64)>>
      [] OTHER -> LET m == Len(chars) \div 2
                  IN  str_encode(SubSeq(chars, 1, m)) \o str_encode(SubSeq(chars, m + 1, Len(chars)))

\* bytes.decode() of base64 output, which is ASCII
bytes_decode(bytes) == bytes

(***************************************************************************)
(* dbsafe_encode / dbsafe_decode  (fields.py 54-77)                        *)
(***************************************************************************)
\* the identity of the text object an encode call creates
BlobId == 900

Returned(v) == [ok |-> TRUE, val |-> v, err |-> "", msg |-> <<>>]

Raised(err) == [ok |-> FALSE, val |-> None, err |-> err, msg |-> <<>>]

\* a dbsafe_encode that never compresses
dbsafe_encode_uncompressed(value, compress_object, pickle_protocol, copy) ==
    LET pickled == dumps(IF copy THEN deepcopy(value) ELSE value, pickle_protocol)
    IN  CASE copy /\ deepcopy_raises(value) -> Raised("ValueError")
          [] pickled.ok -> Returned(PickledObject(BlobId, bytes_decode(b64encode(pickled.out))))
          [] OTHER -> Raised(pickled.err)

\* a dbsafe_encode that encodes the value itself when copying it fails
dbsafe_encode_copy_swallowed(value, compress_object, pickle_protocol, copy) ==
    LET copied == IF copy /\ ~deepcopy_raises(value) THEN deepcopy(value) ELSE value
        pickled == dumps(copied, pickle_protocol)
        packed == IF compress_object THEN compress(pickled.out) ELSE pickled.out
    IN  IF pickled.ok THEN Returned(PickledObject(BlobId, bytes_decode(b64encode(packed))))
        ELSE Raised(pickled.err)

dbsafe_encode(value, compress_object, pickle_protocol, copy) ==
    LET copied == IF copy THEN deepcopy(value) ELSE value
        pickled == dumps(copied, pickle_protocol)
        packed == IF compress_object THEN compress(pickled.out) ELSE pickled.out
    IN  CASE copy /\ deepcopy_raises(value) -> Raised("ValueError")
          [] pickled.ok -> Returned(PickledObject(BlobId, bytes_decode(b64encode(packed))))
          [] OTHER -> Raised(pickled.err)

dbsafe_decode(value, compress_object) ==
    IF value.k # "str" THEN Raised("AttributeError")
    ELSE LET raw == b64decode(str_encode(value.s))
             plain == IF compress_object THEN decompress(raw.val) ELSE raw
         IN  CASE ~raw.ok -> Raised(raw.err)
               [] ~plain.ok -> Raised(plain.err)
               [] OTHER -> LET loaded == loads(plain.val)
                           IN  IF loaded.ok THEN Returned(loaded.val) ELSE Raised(loaded.err)

(***************************************************************************)
(* PickledObjectField  (fields.py 80-185)                                  *)
(***************************************************************************)
\* models.fields.NOT_PROVIDED: no default declared
NOT_PROVIDED == Obj("NOT_PROVIDED", "", 0, 0, <<>>, <<>>)

\* what models.Field.get_default() answers for a field without a default
FieldDefault == Str(0, <<>>)

\* PickledObjectField.__init__: compress, protocol, copy, and Field's default
Field(compress_, protocol, copy, default) == [compress |-> compress_, protocol |-> protocol, copy |-> copy, default |-> default]

\* the identity of the wrapper wrap_conflictual_object creates
WrapId == 800

wrap_conflictual_object(obj) ==
    IF has_prepare_database_save(obj) \/ callable(obj) THEN _ObjectWrapper(WrapId, obj) ELSE obj

\* calling a zero-argument callable default: date.today() reads the clock
CallDefault(f, day) == IF f.cls = "today" THEN PyInt(day) ELSE Obj("inst", f.cls, 0, 0, <<>>, <<>>)

\* a get_default that returns the callable instead of calling it
get_default_uncalled(self, day) ==
    IF self.default # NOT_PROVIDED THEN [val |-> self.default, called |-> 0] ELSE [val |-> FieldDefault, called |-> 0]

\* get_default: [val, called] where called counts the calls of self.default
get_default(self, day) ==
    IF self.default # NOT_PROVIDED
    THEN IF callable(self.default)
         THEN [val |-> CallDefault(self.default, day), called |-> 1]
         ELSE [val |-> self.default, called |-> 0]
    ELSE [val |-> FieldDefault, called |-> 0]

\* the identity of the list of messages a check call returns
CheckId == 600

\* field.check(): PickledObjectField defines no check, so models.Field.check
\* runs, and none of its checks looks at the default
check(self) == Returned(List(CheckId, <<>>))

\* a to_python that decodes only what is tagged PickledObject
to_python_tagged_only(self, value) ==
    IF value # None /\ isinstance(value, "PickledObject")
    THEN LET decoded == dbsafe_decode(value, self.compress)
         IN  IF ~decoded.ok THEN Raised(decoded.err)
             ELSE IF isinstance(decoded.val, "_ObjectWrapper") /\ decoded.val.items # <<>>
                  THEN Returned(decoded.val.items[1])
                  ELSE Returned(decoded.val)
    ELSE Returned(value)

\* a to_python that raises on every decoding failure
to_python_strict(self, value) ==
    IF value # None
    THEN LET decoded == dbsafe_decode(value, self.compress)
         IN  IF ~decoded.ok THEN Raised(decoded.err)
             ELSE IF isinstance(decoded.val, "_ObjectWrapper") /\ decoded.val.items # <<>>
                  THEN Returned(decoded.val.items[1])
                  ELSE Returned(decoded.val)
    ELSE Returned(value)

\* a to_python that swallows every decoding failure
to_python_lenient(self, value) ==
    IF value # None
    THEN LET decoded == dbsafe_decode(value, self.compress)
         IN  IF ~decoded.ok THEN Returned(value)
             ELSE IF isinstance(decoded.val, "_ObjectWrapper") /\ decoded.val.items # <<>>
                  THEN Returned(decoded.val.items[1])
                  ELSE Returned(decoded.val)
    ELSE Returned(value)

to_python(self, value) ==
    IF value # None
    THEN LET decoded == dbsafe_decode(value, self.compress)
         IN  IF ~decoded.ok
             THEN IF isinstance(value, "PickledObject") THEN Raised(decoded.err) ELSE Returned(value)
             ELSE IF isinstance(decoded.val, "_ObjectWrapper")
                  THEN IF decoded.val.items # <<>> THEN Returned(decoded.val.items[1]) ELSE Raised("AttributeError")
                  ELSE Returned(decoded.val)
    ELSE Returned(value)

\* a pre_save that hands the attribute's value on as it is
pre_save_unwrapped(self, attr) == attr

\* pre_save: the attribute's value, wrapped
pre_save(self, attr) == wrap_conflictual_object(attr)

from_db_value(self, value) == to_python(self, value)

\* django.utils.encoding.force_text: an instance of str or of a subclass of
\* str is returned as it is
force_text(s) == s

Counted(r, n) == [ok |-> r.ok, val |-> IF r.ok THEN force_text(r.val) ELSE r.val, err |-> r.err, msg |-> r.msg, encodes |-> n]

\* a get_db_prep_value that encodes None like any other value
get_db_prep_value_encodes_none(self, value) ==
    IF ~isinstance(value, "PickledObject")
    THEN Counted(dbsafe_encode(value, self.compress, self.protocol, self.copy), 1)
    ELSE Counted(Returned(value), 0)

\* a get_db_prep_value that encodes a PickledObject again
get_db_prep_value_reencodes(self, value) ==
    IF value # None
    THEN Counted(dbsafe_encode(value, self.compress, self.protocol, self.copy), 1)
    ELSE Counted(Returned(value), 0)

\* get_db_prep_value: the result and the number of dbsafe_encode calls made
get_db_prep_value(self, value) ==
    IF value # None /\ ~isinstance(value, "PickledObject")
    THEN Counted(dbsafe_encode(value, self.compress, self.protocol, self.copy), 1)
    ELSE Counted(Returned(value), 0)

LookupClass(lookup_name) == Obj("lookup", lookup_name, 0, 0, <<>>, <<>>)

\* a get_lookup whose list lacks "in"
get_lookup_without_in(self, lookup_name) ==
    IF lookup_name \notin {"exact", "isnull"}
    THEN [Raised("TypeError") EXCEPT !.msg = <<"Lookup type ", lookup_name, " is not supported.">>]
    ELSE Returned(LookupClass(lookup_name))

get_lookup(self, lookup_name) ==
    IF lookup_name \notin {"exact", "in", "isnull"}
    THEN [Raised("TypeError") EXCEPT !.msg = <<"Lookup type ", lookup_name, " is not supported.">>]
    ELSE Returned(LookupClass(lookup_name))

(***************************************************************************)
(* The values the caller assigns, and the field declarations               *)
(***************************************************************************)
\* tests/models.py: S1, L1 and a tuple of the test data
S1 == Str(1, <<72, 105>>)

L1 == List(3, <<PyInt(1), PyInt(2)>>)

\* (shared, shared): one list twice
SharedPair == Tuple(4, <<List(5, <<PyInt(1)>>), List(5, <<PyInt(1)>>)>>)

\* (copy1, copy2): two equal lists
CopiedPair == Tuple(6, <<List(7, <<PyInt(1)>>), List(8, <<PyInt(1)>>)>>)

\* "not a real blob"
NotABlob == Str(12, <<110, 111, 116, 32, 97, 32, 114, 101, 97, 108, 32, 98, 108, 111, 98>>)

PlainValues == {PyInt(1), S1, TestCustomDataType(2, <<72, 105>>), L1, SharedPair, CopiedPair, NotABlob}

\* callables and objects with the prepare_database_save hook
ConflictualValues == {Global("len"), Global("MinimalTestingModel"), HookObject(9)}

\* TestCopyDataType('boom!'), alone and inside a list
Boom == TestCopyDataType(13, <<98, 111, 111, 109, 33>>)

UncopyableValues == {Boom, List(14, <<Boom>>)}

Values == PlainValues \cup ConflictualValues \cup UncopyableValues

Defaults == {NOT_PROVIDED, Tuple(20, <<S1, L1>>), Global("today")}

Fields == {Field(c, p, k, d) : c \in BOOLEAN, p \in Protocols, k \in BOOLEAN, d \in Defaults}

\* values the caller encoded beforehand with dbsafe_encode
PreEncoded(self) == {dbsafe_encode(v, self.compress, self.protocol, self.copy).val : v \in {L1, Global("len")}}

\* defaults a column is declared with in PickledObjectFieldCheckTests: [] and
\* list, next to those of tests/models.py
EmptyList == List(21, <<>>)

DeclaredDefaults == Defaults \cup {EmptyList, L1, Global("list")}

LookupNames == {"exact", "in", "isnull", "gte", "contains"}

PyBool(b) == Obj("bool", "", 0, IF b THEN 1 ELSE 0, <<>>, <<>>)

(***************************************************************************)
(* The row: one model instance and its column in the database              *)
(***************************************************************************)
NoRow == Obj("norow", "", 0, 0, <<>>, <<>>)

\* the text object the database driver hands back: a plain str
DbId == 700

DbText(v) == IF v = None THEN None ELSE Str(DbId, v.s)

MaxDay == 3

Result(r) == [ok |-> r.ok, val |-> r.val, err |-> r.err, msg |-> r.msg]

Did(op, arg, mid, r, n, matched) == [op |-> op, arg |-> arg, mid |-> mid, res |-> Result(r), n |-> n, matched |-> matched]

Init == /\ cfg \in Fields
        /\ column = NoRow
        /\ edited = FALSE
        /\ saved = NoRow
        /\ today = 1
        /\ last = Did("init", None, None, Returned(None), 0, FALSE)

\* instance.field = v; instance.save(): pre_save, then get_db_prep_value
Save(v) ==
    LET mid == pre_save(cfg, v)
        r == get_db_prep_value(cfg, mid)
    IN  /\ last' = Did("save", v, mid, r, r.encodes, FALSE)
        /\ IF r.ok
           THEN column' = DbText(r.val) /\ saved' = v /\ edited' = FALSE
           ELSE UNCHANGED <<column, saved, edited>>
        /\ UNCHANGED <<cfg, today>>

\* fetching the row: from_db_value on the column's text
Load ==
    /\ column # NoRow
    /\ last' = Did("load", column, column, from_db_value(cfg, column), 0, FALSE)
    /\ UNCHANGED <<cfg, column, edited, saved, today>>

\* to_python called on a value that did not come from the database driver:
\* None, a non-text, a literal text, or the stored text tagged PickledObject
ToPython(x) ==
    /\ \/ x \in {None, PyInt(1), NotABlob}
       \/ column.k = "str" /\ x = PickledObject(BlobId, column.s)
    /\ last' = Did("to_python", x, x, to_python(cfg, x), 0, FALSE)
    /\ UNCHANGED <<cfg, column, edited, saved, today>>

Edit(text, kind, pos) ==
    CASE kind = "insert" -> SubSeq(text, 1, pos - 1) \o <<32>> \o SubSeq(text, pos, Len(text))
      [] kind = "delete" -> SubSeq(text, 1, pos - 1) \o SubSeq(text, pos + 1, Len(text))
      [] OTHER -> [text EXCEPT ![pos] = IF @ = 65 THEN 66 ELSE 65]

EditPositions(text) == {1, Len(text)}

\* the stored text is changed behind the field's back, once per stored text
Corrupt(kind, pos) ==
    /\ column.k = "str"
    /\ ~edited
    /\ pos \in EditPositions(column.s)
    /\ column' = Str(DbId, Edit(column.s, kind, pos))
    /\ edited' = TRUE
    /\ last' = Did("corrupt", column, column', Returned(None), 0, FALSE)
    /\ UNCHANGED <<cfg, saved, today>>

\* objects.filter(field__<kind>=v): get_lookup, then for exact and in the
\* right-hand side, passed through wrap_conflictual_object by the caller, goes
\* through get_db_prep_value and is compared with the column as text
Filter(kind, v) ==
    LET lookup == get_lookup(cfg, kind)
        mid == wrap_conflictual_object(v)
        r == get_db_prep_value(cfg, mid)
    IN  /\ CASE ~lookup.ok -> v = None /\ last' = Did(kind, v, v, lookup, 0, FALSE)
             [] kind = "isnull" ->
                  /\ v \in {PyBool(TRUE), PyBool(FALSE)}
                  /\ last' = Did(kind, v, v, lookup, 0, column # NoRow /\ ((column = None) <=> (v = PyBool(TRUE))))
             [] OTHER ->
                  /\ v \in Values
                  /\ last' = Did(kind, v, mid, r, r.encodes, r.ok /\ column.k = "str" /\ column.s = r.val.s)
        /\ UNCHANGED <<cfg, column, edited, saved, today>>

GetDefault ==
    LET d == get_default(cfg, today)
    IN  /\ last' = Did("get_default", cfg.default, cfg.default, Returned(d.val), d.called, FALSE)
        /\ UNCHANGED <<cfg, column, edited, saved, today>>

\* a column declared with the default d is validated: Model().check()
Check(d) ==
    LET declared == Field(cfg.compress, cfg.protocol, cfg.copy, d)
    IN  /\ last' = Did("check", d, d, check(declared), 0, FALSE)
        /\ UNCHANGED <<cfg, column, edited, saved, today>>

\* the calendar moves on
Tick ==
    /\ today < MaxDay
    /\ today' = today + 1
    /\ last' = Did("tick", None, None, Returned(None), 0, FALSE)
    /\ UNCHANGED <<cfg, column, edited, saved>>

\* a field declared without a default, as pickle_field in tests/models.py
InitNoDefault == Init /\ cfg.default = NOT_PROVIDED

\* saving, fetching and reading one row
Next == \/ \E v \in Values \cup {None} \cup PreEncoded(cfg) : Save(v)
        \/ Load
        \/ \E x \in {None, PyInt(1), NotABlob, PickledObject(BlobId, column.s)} : ToPython(x)
        \/ \E kind \in {"insert", "delete", "replace"} : \E pos \in 1..Len(column.s) : Corrupt(kind, pos)
        \/ \E b \in BOOLEAN : Filter("isnull", PyBool(b))

Spec == InitNoDefault /\ [][Next]_vars

\* saving one row and querying for it
NextQuery == \/ \E v \in Values \cup {None} \cup PreEncoded(cfg) : Save(v)
             \/ \E kind \in LookupNames : \E v \in Values \cup {None, PyBool(TRUE), PyBool(FALSE)} : Filter(kind, v)

SpecQuery == InitNoDefault /\ [][NextQuery]_vars

\* resolving the declared default as the days pass, and validating declarations
NextDefault == GetDefault \/ Tick \/ \E d \in DeclaredDefaults : Check(d)

SpecDefault == Init /\ [][NextDefault]_vars

(***************************************************************************)
(* Properties                                                              *)
(***************************************************************************)
OtherCompress(self) == [self EXCEPT !.compress = ~@]

\* what fetching gives after v was saved through the field self
ReadBack(self, v) == from_db_value(self, DbText(get_db_prep_value(self, pre_save(self, v)).val))

\* C1: a plain non-null value that was saved is fetched back equal and of the
\* same class, under every compress, protocol and copy setting; decode of its
\* encode is the value; the field with the other compress setting gives the
\* same value for the same input.
C1_RoundTrip ==
    (last.op = "load" /\ ~edited /\ saved \in PlainValues) =>
        LET enc == dbsafe_encode(saved, cfg.compress, cfg.protocol, cfg.copy)
            dec == dbsafe_decode(enc.val, cfg.compress)
            other == ReadBack(OtherCompress(cfg), saved)
        IN  /\ last.res.ok /\ PyEq(last.res.val, saved) /\ last.res.val.cls = saved.cls
            /\ enc.ok /\ dec.ok /\ PyEq(dec.val, saved)
            /\ other.ok /\ PyEq(other.val, last.res.val)

C1_Witness == last.op = "load" /\ ~edited /\ saved = SharedPair /\ cfg.compress /\ last.res.ok /\ PyEq(last.res.val, SharedPair)

Encode(self, v) == dbsafe_encode(v, self.compress, self.protocol, self.copy)

\* C2 (as claimed): with copy=True, a row saved from the value a is compared,
\* in an exact or in lookup for an equal value b of the same class, with the
\* same text: equal values have equal encodings, however their parts are
\* shared ((shared, shared) against (copy1, copy2)).
C2_EqualValuesEncodeEqual ==
    (last.op \in {"exact", "in"} /\ cfg.copy /\ saved \in Values /\ PyEq(last.arg, saved) /\ last.arg.cls = saved.cls) =>
        /\ Encode(cfg, last.arg) = Encode(cfg, saved)
        /\ last.matched

\* C2, the part that holds: encoding the same value twice gives the same text
C2_SameValueTwice ==
    (last.op \in {"exact", "in"} /\ cfg.copy /\ saved \in PlainValues /\ last.arg = saved) => last.matched

\* C3: saving v and looking v up (exact or in) go through the same wrapping
\* rule, which does not encode, then through one dbsafe_encode call each on
\* the same intermediate shape; the two texts are identical and the saved row
\* is matched.  Callables and hook objects included.
C3_SaveLookupIdentity ==
    (last.op \in {"exact", "in"} /\ saved \in Values /\ last.arg = saved) =>
        LET written == get_db_prep_value(cfg, pre_save(cfg, saved))
        IN  /\ last.mid = pre_save(cfg, saved)
            /\ ~isinstance(last.mid, "PickledObject")
            /\ last.n = 1 /\ written.encodes = 1
            /\ last.res.ok /\ written.ok
            /\ last.res.val = written.val
            /\ isinstance(last.res.val, "PickledObject")
            /\ column.s = last.res.val.s
            /\ last.matched

C3_Witness == last.op = "in" /\ saved = Global("MinimalTestingModel") /\ last.arg = saved /\ last.matched /\ isinstance(last.mid, "_ObjectWrapper")

\* C7: a lookup kind is refused, with a TypeError naming the kind, exactly when
\* it is not exact, in or isnull.
UnsupportedLookup(r, kind) == ~r.ok /\ r.err = "TypeError" /\ r.msg = <<"Lookup type ", kind, " is not supported.">>

C7_LookupAllowList ==
    (last.op \in LookupNames) =>
        /\ (last.op \notin {"exact", "in", "isnull"} <=> UnsupportedLookup(last.res, last.op))
        /\ (last.op \in {"exact", "in", "isnull"} => last.res.msg = <<>>)
        /\ (last.op = "isnull" => last.res = Returned(LookupClass("isnull")))

C7_Witness == last.op = "gte" /\ UnsupportedLookup(last.res, "gte")

\* C4: None is read as None and written as None under every setting, without
\* an encode call or a wrapper; a row saved from None holds NULL and no other
\* row does, so isnull=True matches exactly the rows saved from None.
C4_NullPassthrough ==
    /\ (last.op \in {"load", "to_python"} /\ last.arg = None) => last.res = Returned(None)
    /\ (last.op = "save" /\ last.arg = None) => (last.mid = None /\ last.res = Returned(None) /\ last.n = 0 /\ column = None)
    /\ (column # NoRow) => ((column = None) <=> (saved = None))
    /\ (last.op = "isnull" /\ column # NoRow) => (last.res.ok /\ (last.matched <=> ((saved = None) <=> (last.arg = PyBool(TRUE)))))

C4_Witness == last.op = "load" /\ last.arg = None /\ saved = None /\ column = None /\ last.res = Returned(None)

Tagged(x) == isinstance(x, "PickledObject")

DecodeFails(x) == ~dbsafe_decode(x, cfg.compress).ok

\* C5: reading a non-null input that is not tagged PickledObject and that
\* fails to decode (at the text, base64, zlib or pickle stage) raises nothing
\* and returns the input itself.
C5_UntaggedFallback ==
    (last.op \in {"load", "to_python"} /\ last.arg # None /\ ~Tagged(last.arg) /\ DecodeFails(last.arg)) =>
        last.res = Returned(last.arg)

\* a stored text whose base64 is sound and whose zlib stream is not
C5_Witness ==
    /\ last.op = "load" /\ edited /\ cfg.compress /\ DecodeFails(last.arg)
    /\ b64decode(str_encode(last.arg.s)).ok
    /\ last.res = Returned(last.arg)

\* C6 (as claimed): reading the changed text of a genuinely encoded blob,
\* tagged PickledObject, raises.
C6_CorruptedBlobRaises ==
    (last.op = "to_python" /\ Tagged(last.arg) /\ edited /\ last.arg.s = column.s) => ~last.res.ok

\* C6 (amended): whenever the input is tagged PickledObject and decoding it
\* fails, to_python raises the decoder's error and returns no value.
C6_TaggedFailurePropagates ==
    (last.op = "to_python" /\ Tagged(last.arg) /\ DecodeFails(last.arg)) =>
        (~last.res.ok /\ last.res.val = None /\ last.res.err = dbsafe_decode(last.arg, cfg.compress).err)

C6_Witness == last.op = "to_python" /\ Tagged(last.arg) /\ edited /\ DecodeFails(last.arg) /\ ~last.res.ok

\* C8 (as claimed): writing a callable or an object with the
\* prepare_database_save hook wraps it, encodes the wrapper into a
\* PickledObject, and reading that text gives the value back, never a wrapper.
C8_ConflictualRoundTrip ==
    (last.op = "save" /\ last.arg \in ConflictualValues) =>
        /\ last.mid = _ObjectWrapper(WrapId, last.arg)
        /\ last.res.ok /\ Tagged(last.res.val) /\ last.n = 1
        /\ LET back == from_db_value(cfg, DbText(last.res.val))
           IN  back.ok /\ PyEq(back.val, last.arg) /\ ~isinstance(back.val, "_ObjectWrapper")

\* C10: a value already tagged PickledObject is written as it is, with no
\* encode call; writing the result of a write returns it unchanged; a row saved
\* from dbsafe_encode(v) reads back as v.
C10_PreEncodedPassthrough ==
    /\ (last.op = "save" /\ Tagged(last.arg)) => (last.res = Returned(last.arg) /\ last.n = 0)
    /\ (last.op = "save" /\ last.res.ok) =>
          LET again == get_db_prep_value(cfg, pre_save(cfg, last.res.val))
          IN  Result(again) = last.res /\ again.encodes = 0
    /\ (last.op = "load" /\ ~edited /\ Tagged(saved)) =>
          \E v \in Values : saved = Encode(cfg, v).val /\ last.res.ok /\ PyEq(last.res.val, v)

C10_Witness == last.op = "load" /\ ~edited /\ saved = Encode(cfg, Global("len")).val /\ last.res = Returned(Global("len"))

\* C9: get_default calls a callable default once per call and returns what
\* that call produces on the day of the call (nothing is kept from an earlier
\* call); a static default is returned as the object it is, without a call;
\* the value is never a PickledObject, a text made from it, or a wrapper.
C9_ResolveDefault ==
    (last.op = "get_default" /\ cfg.default # NOT_PROVIDED) =>
        /\ last.res.ok
        /\ IF callable(cfg.default)
           THEN last.n = 1 /\ last.res.val = PyInt(today)
           ELSE last.n = 0 /\ last.res.val = cfg.default
        /\ ~Tagged(last.res.val) /\ ~isinstance(last.res.val, "_ObjectWrapper")
        /\ last.res.val.k # "str"

C9_Witness == last.op = "get_default" /\ callable(cfg.default) /\ today = 2 /\ last.n = 1 /\ last.res.val = PyInt(2)

\* C11: with copy=True, saving a value that cannot be deep-copied raises the
\* copy's error (ValueError) to the caller, returns no text and stores nothing;
\* with copy=False no copy is made and the same value is saved and fetched back.
C11_CopyPolicy ==
    (last.op = "save" /\ last.arg \in UncopyableValues) =>
        IF cfg.copy
        THEN /\ ~last.res.ok /\ last.res.err = "ValueError" /\ last.res.val = None
             /\ saved # last.arg
        ELSE /\ last.res.ok /\ Tagged(last.res.val) /\ last.n = 1
             /\ saved = last.arg /\ column = DbText(last.res.val)
             /\ LET back == from_db_value(cfg, column)
                IN  back.ok /\ PyEq(back.val, last.arg) /\ back.val.cls = last.arg.cls

C11_Witness == last.op = "save" /\ last.arg = Boom /\ cfg.copy /\ ~last.res.ok /\ last.res.err = "ValueError" /\ saved \in PlainValues

\* copy=False: the uncopyable value is stored
C11_WitnessNoCopy == last.op = "save" /\ last.arg = Boom /\ ~cfg.copy /\ last.res.ok /\ saved = Boom

\* C12 (as claimed): validating a column declared with a mutable literal
\* default (a list, dict or set instance) reports exactly one warning for it,
\* and with any other default, a callable such as list included, none; the
\* validation returns its messages and raises nothing.
C12_MutableDefaultWarned ==
    (last.op = "check") =>
        /\ last.res.ok
        /\ Len(last.res.val.items) = IF last.arg.k \in {"list", "dict", "set"} THEN 1 ELSE 0

\* C12, the part that holds: validation raises nothing and a callable default
\* gets no warning
C12_CallableDefaultSilent ==
    (last.op = "check" /\ callable(last.arg)) => (last.res.ok /\ last.res.val.items = <<>>)

\* the same text with the other tag: PickledObject for a plain str and back
Retag(x) == IF Tagged(x) THEN Str(DbId, x.s) ELSE PickledObject(BlobId, x.s)

C13_WitnessEdited == last.op = "load" /\ edited /\ ~Tagged(last.arg) /\ ~DecodeFails(last.arg) /\ last.res.ok /\ last.res.val # last.arg

====
